---------------------------- MODULE Spec2Model ----------------------------
(***************************************************************************)
(* Model of the Signal repository of Baileys (src/Signal/libsignal.ts):    *)
(* the LID -> JID normalizer, the storage adapter handed to libsignal, and *)
(* the one-to-one and group repository operations built on it.             *)
(*                                                                         *)
(* Strings are sequences of one-character strings, so that the regular     *)
(* expressions and the formatting of the source are computed character by  *)
(* character.                                                              *)
(***************************************************************************)
EXTENDS Integers, Sequences, FiniteSets, TLC

(***************************************************************************)
(* Text helpers (JavaScript string and RegExp primitives used by the code) *)
(***************************************************************************)

Digits == <<"0", "1", "2", "3", "4", "5", "6", "7", "8", "9">>

IsDigit(c) == \E i \in 1..Len(Digits) : Digits[i] = c

\* the numeric value of one decimal digit
DigitVal(c) == (CHOOSE i \in 1..Len(Digits) : Digits[i] = c) - 1

\* case folding of the /i flag, on the letters an address can hold
ToLower(c) ==
    CASE c = "L" -> "l" [] c = "I" -> "i" [] c = "D" -> "d"
      [] c = "S" -> "s" [] c = "W" -> "w" [] c = "H" -> "h"
      [] c = "A" -> "a" [] c = "T" -> "t" [] c = "P" -> "p"
      [] c = "N" -> "n" [] c = "E" -> "e" [] c = "G" -> "g"
      [] c = "U" -> "u" [] c = "C" -> "c"
      [] OTHER -> c

LowerStr(s) == [i \in 1..Len(s) |-> ToLower(s[i])]

\* s.slice(0, n) and s.slice(n)
Take(s, n) == SubSeq(s, 1, n)
Drop(s, n) == SubSeq(s, n + 1, Len(s))

\* s.indexOf(c), 1-based; 0 when c does not occur
IndexOf(s, c) ==
    IF \E i \in 1..Len(s) : s[i] = c
    THEN CHOOSE i \in 1..Len(s) : s[i] = c /\ \A j \in 1..(i - 1) : s[j] # c
    ELSE 0

Contains(s, c) == IndexOf(s, c) # 0

\* /suffix$/i.test(s)
EndsWithCI(s, suffix) ==
    /\ Len(s) >= Len(suffix)
    /\ LowerStr(Drop(s, Len(s) - Len(suffix))) = suffix

AllDigits(s) == \A i \in 1..Len(s) : IsDigit(s[i])

RECURSIVE ParseNat(_)
\* +"12" : the number a string of decimal digits denotes
ParseNat(s) ==
    IF Len(s) = 0 THEN 0
    ELSE 10 * ParseNat(Take(s, Len(s) - 1)) + DigitVal(s[Len(s)])

RECURSIVE NatToStr(_)
\* String(n) for a non-negative integer
NatToStr(n) ==
    IF n < 10 THEN <<Digits[n + 1]>>
    ELSE NatToStr(n \div 10) \o <<Digits[(n % 10) + 1]>>

AtLid == <<"@", "l", "i", "d">>
AtSWhatsAppNet ==
    <<"@", "s", ".", "w", "h", "a", "t", "s", "a", "p", "p", ".", "n", "e", "t">>


(***************************************************************************)
(* The key store (Types/Auth.ts, SignalKeyStore): records by kind and id.  *)
(* A patch value is <<v>> to write v and <<>> (null) to delete the entry.  *)
(***************************************************************************)

Kinds == {"pre-key", "session", "sender-key", "lid-mapping"}

Null == <<>>

\* an empty table of one kind
EmptyTable == [x \in {} |-> Null]

\* keys.get(type, ids): only the ids that are present
KeysGet(kv, type, ids) ==
    [id \in (ids \cap DOMAIN kv[type]) |-> kv[type][id]]

\* keys.set(data): data maps some kinds to (id -> <<record>> or null)
KeysSet(kv, data) ==
    [k \in DOMAIN kv |->
        IF k \in DOMAIN data
        THEN LET old == kv[k]
                 new == data[k]
                 kept == (DOMAIN old) \ {id \in DOMAIN new : new[id] = Null}
                 put == {id \in DOMAIN new : new[id] # Null}
             IN  [id \in kept \cup put |->
                     IF id \in put THEN new[id][1] ELSE old[id]]
        ELSE kv[k]]

\* keys.clear(): "clear all the data in the store", every kind
KeysClear(kv) == [k \in DOMAIN kv |-> EmptyTable]

\* one store access, as the log of an operation records it
Access(m, kind, id) == [m |-> m, kind |-> kind, id |-> id]

(***************************************************************************)
(* normalizeLidToJid (libsignal.ts): `keys` is the store handle, its       *)
(* content keys.kv and whether its get on 'lid-mapping' throws now.        *)
(***************************************************************************)

\* id.match(/^([^:@]+)(:\d+)?@lid$/i): whether id matches, group 1 (user)
\* and group 2 (device, "" when absent)
LidMatch(id) ==
    LET Parts(r, colon) ==
            LET user == IF colon = 0 THEN r ELSE Take(r, colon - 1)
                digits == IF colon = 0 THEN <<>> ELSE Drop(r, colon)
                ok == /\ EndsWithCI(id, AtLid)
                      /\ Len(user) > 0
                      /\ ~Contains(user, "@")
                      /\ (colon # 0 => Len(digits) > 0 /\ AllDigits(digits))
            IN  [ok |-> ok,
                 user |-> user,
                 device |-> IF ok /\ colon # 0 THEN <<":">> \o digits ELSE <<>>]
        Rest(r) == Parts(r, IndexOf(r, ":"))
    IN  Rest(Take(id, Len(id) - Len(AtLid)))

\* id.replace(/^([^:@]+)(:\d+)?@lid$/i, "$1@lid")
BareLid(id) ==
    LET Replaced(m) == IF m.ok THEN m.user \o AtLid ELSE id
    IN  Replaced(LidMatch(id))

\* mapped.replace(/@s\.whatsapp\.net$/i, `${device}@s.whatsapp.net`)
AttachDevice(mapped, device) ==
    IF EndsWithCI(mapped, AtSWhatsAppNet)
    THEN Take(mapped, Len(mapped) - Len(AtSWhatsAppNet)) \o device \o AtSWhatsAppNet
    ELSE mapped

\* keys.get("lid-mapping", [bare]) inside the try block: the result, or
\* nothing when the get throws and the catch swallows it
LidMappingGet(keys, bare) ==
    IF keys.lidGetThrows THEN EmptyTable
    ELSE KeysGet(keys.kv, "lid-mapping", {bare})

\* the store reads normalizeLidToJid makes for id
NormalizeLog(id) ==
    IF EndsWithCI(id, AtLid)
    THEN <<Access("get", "lid-mapping", BareLid(id))>>
    ELSE <<>>

\* the guard of line 27 dropped: every id is looked up
NormalizeAnyId(id, keys) ==
    LET Mapped(bare, res) ==
            IF bare \in DOMAIN res /\ Len(res[bare]) > 0
            THEN [threw |-> FALSE,
                  val |-> AttachDevice(res[bare],
                            IF EndsWithCI(id, AtLid) THEN LidMatch(id).device
                            ELSE <<>>)]
            ELSE [threw |-> FALSE, val |-> id]
        Lookup(bare) == Mapped(bare, LidMappingGet(keys, bare))
    IN  Lookup(IF EndsWithCI(id, AtLid) THEN BareLid(id) ELSE id)

\* the try/catch of lines 32-43 dropped: a failing lookup rejects
NormalizeNoCatch(id, keys) ==
    LET Mapped(bare, res) ==
            IF bare \in DOMAIN res /\ Len(res[bare]) > 0
            THEN [threw |-> FALSE,
                  val |-> AttachDevice(res[bare], LidMatch(id).device)]
            ELSE [threw |-> FALSE, val |-> id]
        Lookup(bare) == Mapped(bare, KeysGet(keys.kv, "lid-mapping", {bare}))
    IN  IF ~EndsWithCI(id, AtLid) THEN [threw |-> FALSE, val |-> id]
        ELSE IF keys.lidGetThrows THEN [threw |-> TRUE, val |-> id]
        ELSE Lookup(BareLid(id))

\* the mapped user kept in the alternate scheme: ...@lid instead of
\* ...@s.whatsapp.net
NormalizeKeepLid(id, keys) ==
    LET KeepLid(mapped) ==
            IF EndsWithCI(mapped, AtSWhatsAppNet)
            THEN Take(mapped, Len(mapped) - Len(AtSWhatsAppNet))
                   \o LidMatch(id).device \o AtLid
            ELSE mapped
        Mapped(bare, res) ==
            IF bare \in DOMAIN res /\ Len(res[bare]) > 0
            THEN [threw |-> FALSE, val |-> KeepLid(res[bare])]
            ELSE [threw |-> FALSE, val |-> id]
        Lookup(bare) == Mapped(bare, LidMappingGet(keys, bare))
    IN  IF ~EndsWithCI(id, AtLid) THEN [threw |-> FALSE, val |-> id]
        ELSE Lookup(BareLid(id))

\* normalizeLidToJid(id, keys): [threw, val]; threw is whether the promise
\* rejects, val the string it resolves to
normalizeLidToJid(id, keys) ==
    LET \* const mapped = res?.[bare]; if (typeof mapped === "string" && mapped)
        Mapped(bare, res) ==
            IF bare \in DOMAIN res /\ Len(res[bare]) > 0
            THEN [threw |-> FALSE,
                  val |-> AttachDevice(res[bare], LidMatch(id).device)]
            ELSE [threw |-> FALSE, val |-> id]
        Lookup(bare) == Mapped(bare, LidMappingGet(keys, bare))
    IN  IF ~EndsWithCI(id, AtLid) THEN [threw |-> FALSE, val |-> id]
        ELSE Lookup(BareLid(id))

(***************************************************************************)
(* Protocol addresses.  jidDecode (WABinary), libsignal's ProtocolAddress  *)
(* and WASignalGroup's SenderKeyName are collaborators of libsignal.ts.    *)
(***************************************************************************)

\* jidDecode(jid): undefined (ok = FALSE) when the string has no "@", when
\* its principal is empty or when its device is not a number; device is <<>>
\* when the address names none
jidDecode(jid) ==
    LET Decoded(user, dev) ==
            IF Len(user) = 0 \/ ~AllDigits(dev)
            THEN [ok |-> FALSE, user |-> <<>>, device |-> <<>>]
            ELSE [ok |-> TRUE, user |-> user,
                  device |-> IF Len(dev) = 0 THEN <<>> ELSE <<ParseNat(dev)>>]
        Split(userCombined, colon) ==
            IF colon = 0 THEN Decoded(userCombined, <<>>)
            ELSE Decoded(Take(userCombined, colon - 1), Drop(userCombined, colon))
        Combined(userCombined) == Split(userCombined, IndexOf(userCombined, ":"))
        At(sep) ==
            IF sep = 0 THEN [ok |-> FALSE, user |-> <<>>, device |-> <<>>]
            ELSE Combined(Take(jid, sep - 1))
    IN  At(IndexOf(jid, "@"))

\* new libsignal.ProtocolAddress(id, deviceId): rejects an id holding "."
ProtocolAddress(id, deviceId) ==
    [threw |-> Contains(id, "."), id |-> id, deviceId |-> deviceId]

\* ProtocolAddress.prototype.toString()
AddressToString(addr) == addr.id \o <<".">> \o NatToStr(addr.deviceId)

\* new SenderKeyName(group, sender).toString()
SenderKeyNameToString(group, sender) ==
    group \o <<":", ":">> \o sender.id \o <<":", ":">> \o NatToStr(sender.deviceId)

\* jidToSignalProtocolAddress(jid): destructuring jidDecode(jid)! throws a
\* TypeError when the jid cannot be decoded; the function makes no check of
\* its own
jidToSignalProtocolAddress(jid) ==
    LET Resolved(d) ==
            IF ~d.ok THEN [threw |-> TRUE, id |-> <<>>, deviceId |-> 0]
            ELSE ProtocolAddress(d.user, IF d.device = <<>> THEN 0 ELSE d.device[1])
    IN  Resolved(jidDecode(jid))

\* the member's device left out of the sender-key name
SenderKeyNameWithoutDevice(group, user) ==
    LET Named(addr) ==
            [threw |-> addr.threw,
             name |-> IF addr.threw THEN <<>>
                      ELSE SenderKeyNameToString(group, [addr EXCEPT !.deviceId = 0])]
    IN  Named(jidToSignalProtocolAddress(user))

\* jidToSignalSenderKeyName(group, user)
jidToSignalSenderKeyName(group, user) ==
    LET Named(addr) ==
            [threw |-> addr.threw,
             name |-> IF addr.threw THEN <<>> ELSE SenderKeyNameToString(group, addr)]
    IN  Named(jidToSignalProtocolAddress(user))

(***************************************************************************)
(* signalStorage (libsignal.ts): the storage object handed to libsignal.   *)
(* Each method yields [threw, ret, key, kv, log]: whether it rejects, the  *)
(* value it resolves to (<<>> for undefined, <<v>> otherwise), the store   *)
(* id it used, the store afterwards and the store accesses it made.        *)
(***************************************************************************)

StorageResult(threw, ret, key, kv, log) ==
    [threw |-> threw, ret |-> ret, key |-> key, kv |-> kv, log |-> log]

\* a storage result with the accesses made before it put first
AfterAccesses(log, r) == [r EXCEPT !.log = log \o @]

\* what follows `await normalizeLidToJid` in loadSession and loadSenderKey:
\* the get under the normalized id and the truthiness test
LoadNormalized(keys, kind, norm) ==
    LET Got(got) ==
            StorageResult(FALSE,
                IF norm \in DOMAIN got THEN <<got[norm]>> ELSE <<>>,
                norm, keys.kv, <<Access("get", kind, norm)>>)
    IN  Got(KeysGet(keys.kv, kind, {norm}))

\* shared by loadSession and loadSenderKey, run without another call in
\* between: normalize, get, truthiness test
LoadKind(keys, kind, id) ==
    LET Normalized(n) ==
            IF n.threw
            THEN StorageResult(TRUE, <<>>, id, keys.kv, NormalizeLog(id))
            ELSE AfterAccesses(NormalizeLog(id), LoadNormalized(keys, kind, n.val))
    IN  Normalized(normalizeLidToJid(id, keys))

\* the set that keeps one record of the kind: every other id of the kind
\* is written null along with the new record
StoreNormalizedAlone(keys, kind, id, norm, value) ==
    StorageResult(FALSE, <<>>, norm,
        KeysSet(keys.kv,
            (kind :> [i \in DOMAIN keys.kv[kind] \cup {norm} |->
                        IF i = norm THEN <<value>> ELSE Null])),
        <<Access("set", kind, norm)>>)

\* what follows `await normalizeLidToJid` in storeSession and
\* storeSenderKey: the set under the normalized id (id is the id as given)
StoreNormalized(keys, kind, id, norm, value) ==
    StorageResult(FALSE, <<>>, norm,
        KeysSet(keys.kv, (kind :> (norm :> <<value>>))),
        <<Access("set", kind, norm)>>)

\* shared by storeSession and storeSenderKey, run without another call in
\* between: normalize, set
StoreKind(keys, kind, id, value) ==
    LET Normalized(n) ==
            IF n.threw
            THEN StorageResult(TRUE, <<>>, id, keys.kv, NormalizeLog(id))
            ELSE AfterAccesses(NormalizeLog(id),
                     StoreNormalized(keys, kind, id, n.val, value))
    IN  Normalized(normalizeLidToJid(id, keys))

loadSession(keys, id) == LoadKind(keys, "session", id)

storeSession(keys, id, session) == StoreKind(keys, "session", id, session)

loadSenderKey(keys, keyId) == LoadKind(keys, "sender-key", keyId)

storeSenderKey(keys, keyId, key) == StoreKind(keys, "sender-key", keyId, key)

\* loadPreKey(id): keyId = id.toString()
loadPreKey(keys, id) ==
    LET Got(keyId, got) ==
            StorageResult(FALSE,
                IF keyId \in DOMAIN got THEN <<got[keyId]>> ELSE <<>>,
                keyId, keys.kv, <<Access("get", "pre-key", keyId)>>)
        Keyed(keyId) == Got(keyId, KeysGet(keys.kv, "pre-key", {keyId}))
    IN  Keyed(NatToStr(id))

\* removePreKey(id): keys.set({ "pre-key": { [id]: null } })
removePreKey(keys, id) ==
    StorageResult(FALSE, <<>>, NatToStr(id),
        KeysSet(keys.kv, ("pre-key" :> (NatToStr(id) :> Null))),
        <<Access("set", "pre-key", NatToStr(id))>>)


(***************************************************************************)
(* The primitives of libsignal that libsignal.ts drives (SessionBuilder,   *)
(* SessionCipher), by what they read and write through the storage object. *)
(* A session record is [n, pending]: how far the ratchet has advanced and  *)
(* whether the session still carries its pre-key (an outgoing session no   *)
(* reply has been decrypted on).  Every method of the storage object is    *)
(* async, so a primitive is suspended at each of them: it is given here by *)
(* what it does up to and with one storage call, [kv, log, threw, err,     *)
(* ret, pc, held]: the store after the storage call and the accesses made, *)
(* whether it throws or returns (pc = "idle") and what, or else the await  *)
(* it is suspended at (pc) and what it holds in its local variables.  The   *)
(* id of a session is addr.toString().                                     *)
(***************************************************************************)

MaxChain == 2

\* no storage call made
NoAccess(keys) == [kv |-> keys.kv, log |-> <<>>]

\* after the storage call r the primitive throws err
Throws(r, err) ==
    [kv |-> r.kv, log |-> r.log, threw |-> TRUE, err |-> err, ret |-> <<>>,
     pc |-> "idle", held |-> <<>>]

\* after the storage call r the primitive, and the operation, return ret
Returns(r, ret) ==
    [kv |-> r.kv, log |-> r.log, threw |-> FALSE, err |-> "", ret |-> ret,
     pc |-> "idle", held |-> <<>>]

\* the storage call r has been made and the next one is awaited at pc
Awaits(r, pc, held) ==
    [kv |-> r.kv, log |-> r.log, threw |-> FALSE, err |-> "", ret |-> <<>>,
     pc |-> pc, held |-> held]

\* the pre-key that pre-key messages name
MessagePreKeyId == 1

\* new SessionBuilder(storage, addr).initOutgoing(session): verifies the
\* bundle's signature, then loads the record; the record with the new open
\* session is stored next
SessionBuilderInitOutgoing(keys, id, session) ==
    IF session = "badSignature" THEN Throws(NoAccess(keys), "BadSignature")
    ELSE Awaits(loadSession(keys, id), "store",
             [put |-> [n |-> 0, pending |-> TRUE], ret |-> <<>>,
              next |-> "idle"])

\* new SessionCipher(storage, addr).encrypt(data): needs a session and
\* advances its sending chain; the record is stored next; type 3 is a
\* pre-key message
SessionCipherEncrypt(keys, id, data) ==
    LET Loaded(ld) ==
            IF ld.ret = <<>> THEN Throws(ld, "SessionError")
            ELSE Awaits(ld, "store",
                     [put |-> [ld.ret[1] EXCEPT !.n = @ + 1],
                      ret |-> <<[type |-> IF ld.ret[1].pending THEN 3 ELSE 1,
                                 body |-> data]>>,
                      next |-> "idle"])
    IN  Loaded(loadSession(keys, id))

\* SessionCipher.decryptWhisperMessage(ciphertext): the record is stored
\* only after the message has been authenticated and decrypted
SessionCipherDecryptWhisperMessage(keys, id, ciphertext) ==
    LET Loaded(ld) ==
            IF ld.ret = <<>> THEN Throws(ld, "SessionError")
            ELSE IF ciphertext # "valid" THEN Throws(ld, "DecryptionFailure")
            ELSE Awaits(ld, "store",
                     [put |-> [n |-> ld.ret[1].n + 1, pending |-> FALSE],
                      ret |-> <<"plaintext">>, next |-> "idle"])
    IN  Loaded(loadSession(keys, id))

\* SessionCipher.decryptPreKeyWhisperMessage(ciphertext): starts from the
\* stored record or a new one; the pre-key the message names is loaded next
SessionCipherDecryptPreKeyWhisperMessage(keys, id, ciphertext) ==
    LET Loaded(ld) == Awaits(ld, "preKey", ld.ret)
    IN  Loaded(loadSession(keys, id))

\* decryptPreKeyWhisperMessage once the session record (session, <<>> when
\* there was none) is loaded: it loads the pre-key, builds the incoming
\* session and decrypts; the record is stored next, the pre-key removed
\* after that
SessionBuilderInitIncoming(keys, session, ciphertext) ==
    LET Loaded(pk) ==
            IF pk.ret = <<>> THEN Throws(pk, "PreKeyError")
            ELSE IF ciphertext # "valid" THEN Throws(pk, "DecryptionFailure")
            ELSE Awaits(pk, "store",
                     [put |-> [n |-> (IF session = <<>> THEN 0 ELSE session[1].n) + 1,
                               pending |-> FALSE],
                      ret |-> <<"plaintext">>, next |-> "removePreKey"])
    IN  Loaded(loadPreKey(keys, MessagePreKeyId))

(***************************************************************************)
(* The group primitives of WASignalGroup (GroupSessionBuilder,             *)
(* GroupCipher).  A sender-key record is the sequence of its sender-key    *)
(* states [keyId, iter], newest last; new SenderKeyRecord() is the empty   *)
(* sequence, which is stored like any other record.                        *)
(***************************************************************************)

MaxIter == 1

KeyIds == {1}

EmptySenderKeyRecord == <<>>

\* whether the record holds a state for keyId, and which
HasState(record, keyId) == \E i \in 1..Len(record) : record[i].keyId = keyId

StateIndex(record, keyId) == CHOOSE i \in 1..Len(record) : record[i].keyId = keyId

\* record.addSenderKeyState(id, iteration, ...): a key id the record knows
\* already keeps its state
AddSenderKeyState(record, keyId, iter) ==
    IF HasState(record, keyId) THEN record
    ELSE Append(record, [keyId |-> keyId, iter |-> iter])

\* new SenderKeyDistributionMessage(null, null, null, null, bytes) parses the
\* payload: it throws on bytes it cannot parse
ParsesAsDistribution(payload) == payload.kind # "malformed"

\* GroupSessionBuilder.process(senderName, senderMsg): loads the record and
\* adds the state of the payload; the record is stored next
GroupSessionBuilderProcess(keys, senderName, payload) ==
    LET Loaded(ld) ==
            IF ld.ret = <<>> THEN Throws(ld, "TypeError")
            ELSE IF payload.kind = "rejected" THEN Throws(ld, "InvalidDistribution")
            ELSE Awaits(ld, "processStore",
                     [put |-> AddSenderKeyState(ld.ret[1], payload.keyId,
                                                payload.iter)])
    IN  Loaded(loadSenderKey(keys, senderName))

\* GroupSessionBuilder.create(senderName): loads the record; an empty record
\* gets a fresh state (key id fresh, iteration 0), which is stored next;
\* the distribution message (dm) describes the newest state
GroupSessionBuilderCreate(keys, senderName, fresh) ==
    LET Newest(record) ==
            [keyId |-> record[Len(record)].keyId, iter |-> record[Len(record)].iter]
        Loaded(ld) ==
            IF ld.ret = <<>> THEN Throws(ld, "TypeError")
            ELSE IF ld.ret[1] = EmptySenderKeyRecord
            THEN Awaits(ld, "createStore",
                     [put |-> <<[keyId |-> fresh, iter |-> 0]>>,
                      dm |-> [keyId |-> fresh, iter |-> 0]])
            ELSE Awaits(ld, "encrypt", [dm |-> Newest(ld.ret[1])])
    IN  Loaded(loadSenderKey(keys, senderName))

\* new GroupCipher(storage, senderName).encrypt(data): loads the record; the
\* newest state signs and encrypts and its chain moves on; the record is
\* stored next
GroupCipherEncrypt(keys, senderName, data, dm) ==
    LET Advanced(ld, record) ==
            Awaits(ld, "encryptStore",
                [put |-> [record EXCEPT ![Len(record)].iter = @ + 1],
                 ret |-> [keyId |-> record[Len(record)].keyId,
                          iter |-> record[Len(record)].iter,
                          auth |-> "valid", data |-> data],
                 dm |-> dm])
        Loaded(ld) ==
            IF ld.ret = <<>> THEN Throws(ld, "UnknownSender")
            ELSE IF ld.ret[1] = EmptySenderKeyRecord
            THEN Throws(ld, "NoSenderKeyState")
            ELSE Advanced(ld, ld.ret[1])
    IN  Loaded(loadSenderKey(keys, senderName))

\* GroupCipher.decrypt(msg): loads the record, UnknownSender without one;
\* the state of the message's key id verifies the signature and moves its
\* chain past the message's iteration; the record is stored next
GroupCipherDecrypt(keys, senderName, msg) ==
    LET Found(ld, record, i) ==
            IF msg.auth # "valid" \/ msg.iter < record[i].iter
            THEN Throws(ld, "DecryptionFailure")
            ELSE Awaits(ld, "decryptStore",
                     [put |-> [record EXCEPT ![i].iter = msg.iter + 1],
                      ret |-> <<msg.data>>])
        Loaded(ld) ==
            IF ld.ret = <<>> THEN Throws(ld, "UnknownSender")
            ELSE IF ~HasState(ld.ret[1], msg.keyId)
            THEN Throws(ld, "NoSenderKeyState")
            ELSE Found(ld, ld.ret[1], StateIndex(ld.ret[1], msg.keyId))
    IN  Loaded(loadSenderKey(keys, senderName))

(***************************************************************************)
(* State: the key store and the record of the last operation.              *)
(***************************************************************************)
VARIABLES
    kv,         \* the key store: kind -> (id -> record)
    last,       \* the last operation: its name, inputs, outcome, store accesses
    processed,  \* the sender-key names a distribution payload was processed for
    peer,       \* the key store of a second party, the receiver of a group
    wire,       \* the group messages on their way to the receiver, oldest first
    tx,         \* the transactions open on the store, one per caller
    calls       \* the calls suspended at an await, one frame per call

vars == <<kv, last, processed, peer, wire, tx, calls>>

\* what only the specifications of two parties and of transactions use
others == <<peer, wire, tx>>

\* the store handle of one call: the content and whether the 'lid-mapping'
\* get throws during this call (the repository operations are explored
\* with a store whose gets succeed)
Keys(f) == [kv |-> kv, lidGetThrows |-> f]

(***************************************************************************)
(* Calls in progress.  An async method runs to its next await in one step  *)
(* and is resumed in a later one; whatever else is called on the store     *)
(* runs in between.  Each get and set of the store is awaited, so a step   *)
(* makes one store access at most.  A frame holds what the call keeps in   *)
(* its local variables: pc is the await it is suspended at, side the store *)
(* it works on ("kv" or "peer"), id the address or id it was called with,  *)
(* name the store id it derived, held what an earlier await returned, log  *)
(* the store accesses it has made, alone whether nothing else has been     *)
(* called on its store since it was called.                                *)
(***************************************************************************)


\* the calls that can be in progress at once; the initial state of a
\* specification fixes how many of these frames `calls` has
CallIds == {"a", "b"}

\* a call that has not been made, or has returned
CallIdle ==
    [pc |-> "idle", op |-> "", side |-> "", id |-> <<>>, name |-> <<>>,
     arg |-> <<>>, f |-> FALSE, held |-> <<>>, log |-> <<>>, alone |-> TRUE]

\* a new call takes the first frame that is free
Free(c) ==
    /\ calls[c].pc = "idle"
    /\ c = "b" => calls["a"].pc # "idle"

\* no call is in progress on the store
Alone(side) ==
    \A c \in DOMAIN calls : calls[c].pc = "idle" \/ calls[c].side # side

\* the frames once something else is called on the store
Interrupted(side) ==
    [c \in DOMAIN calls |->
        IF calls[c].pc \notin {"idle", "normalized"} /\ calls[c].side = side
        THEN [calls[c] EXCEPT !.alone = FALSE]
        ELSE calls[c]]

\* the record of a step that leaves its call suspended at an await: step is
\* what the call has just done
Awaiting(c, frame, step) ==
    [op |-> "await", of |-> frame.op, call |-> c, step |-> step,
     id |-> frame.id, name |-> frame.name, alone |-> frame.alone]

\* the store a frame works on, its handle, and a write to it
StoreOf(side) == IF side = "peer" THEN peer ELSE kv

KeysOf(side) == [kv |-> StoreOf(side), lidGetThrows |-> FALSE]

Written(side, kv2) ==
    IF side = "peer" THEN peer' = kv2 /\ UNCHANGED kv
    ELSE kv' = kv2 /\ UNCHANGED peer

\* the frame of a repository operation called with args for jid on the
\* store of `side`; name is the store id it derived from jid
NewCall(op, side, jid, args, name) ==
    [CallIdle EXCEPT !.op = op, !.side = side, !.id = jid, !.arg = args,
                     !.name = name, !.alone = Alone(side)]

\* the record of a repository call that has returned or thrown
CallReturned(frame, t) ==
    [op |-> frame.op, jid |-> frame.id, args |-> frame.arg, addr |-> frame.name,
     threw |-> t.threw, err |-> t.err, ret |-> t.ret, log |-> frame.log \o t.log,
     alone |-> frame.alone]

\* a call runs up to and with its first store access (t): it has returned or
\* thrown by then, or it is suspended in a frame
Began(frame, t) ==
    /\ Written(frame.side, t.kv)
    /\ IF t.pc = "idle"
       THEN /\ calls' = Interrupted(frame.side)
            /\ last' = CallReturned(frame, t)
       ELSE \E c \in DOMAIN calls :
               /\ Free(c)
               /\ calls' = [Interrupted(frame.side) EXCEPT
                              ![c] = [frame EXCEPT !.pc = t.pc, !.held = t.held,
                                                   !.log = t.log]]
               /\ last' = Awaiting(c, frame, "call")

\* the call of frame c goes on with its next store access (t)
Went(c, t) ==
    /\ Written(calls[c].side, t.kv)
    /\ IF t.pc = "idle"
       THEN /\ calls' = [calls EXCEPT ![c] = CallIdle]
            /\ last' = CallReturned(calls[c], t)
       ELSE /\ calls' = [calls EXCEPT ![c].pc = t.pc, ![c].held = t.held,
                                      ![c].log = @ \o t.log]
            /\ last' = Awaiting(c, calls[c], calls[c].pc)

OthersIdle ==
    /\ peer = [k \in Kinds |-> EmptyTable]
    /\ wire = <<>>
    /\ tx = <<>>
    /\ calls = [c \in CallIds |-> CallIdle]

(***************************************************************************)
(* Addresses and mapping tables the specifications draw from               *)
(***************************************************************************)

AtCUs == <<"@", "c", ".", "u", "s">>

Lid1 == <<"1">> \o AtLid                          \* 1@lid
Lid1d2 == <<"1", ":", "2">> \o AtLid              \* 1:2@lid
Lid1d2Upper == <<"1", ":", "2", "@", "L", "I", "D">>      \* 1:2@LID
Lid1d02 == <<"1", ":", "0", "2">> \o AtLid        \* 1:02@lid
Lid7 == <<"7">> \o AtLid                          \* 7@lid, never mapped
Lid8d1 == <<"8", ":", "1">> \o AtLid              \* 8:1@lid, mapped to ""
Lid9d3 == <<"9", ":", "3">> \o AtLid              \* 9:3@lid, mapped to 6@c.us
Lid1dx == <<"1", ":", "x">> \o AtLid              \* 1:x@lid, no numeric device
Jid1 == <<"1">> \o AtSWhatsAppNet                 \* 1@s.whatsapp.net
Jid5 == <<"5">> \o AtSWhatsAppNet                 \* 5@s.whatsapp.net
Jid5d2 == <<"5", ":", "2">> \o AtSWhatsAppNet     \* 5:2@s.whatsapp.net
Jid6CUs == <<"6">> \o AtCUs                       \* 6@c.us
Addr1d0 == <<"1", ".", "0">>                      \* 1.0, a ProtocolAddress string
NoServer == <<"1", "2">>                          \* 12, no "@"
NoUser == AtSWhatsAppNet                          \* @s.whatsapp.net, empty principal
NoUserDevice == <<":", "2">> \o AtSWhatsAppNet    \* :2@s.whatsapp.net
Group1 == <<"g", "@", "g", ".", "u", "s">>        \* g@g.us

\* no mapping known
NoMapping == EmptyTable

\* LID -> JID entries, with the reverse JID -> LID entry of the first
\* (Types/Auth.ts: 'lid-mapping' maps "LID -> JID ou vice-versa")
SomeMapping ==
    (Lid1 :> Jid5) @@ (Jid5 :> Lid1) @@ (<<"8">> \o AtLid :> <<>>)
      @@ (<<"9">> \o AtLid :> Jid6CUs)
      @@ (<<"5">> \o AtLid :> Jid1)

LidTables == {NoMapping, SomeMapping}

\* ids normalizeLidToJid is applied to
NormIds ==
    {Lid1, Lid1d2, Lid1d2Upper, Lid1d02, Lid7, Lid8d1, Lid9d3, Lid1dx,
     AtLid, Jid1, Jid5, Jid5d2, Jid6CUs, Addr1d0, NoServer}

\* ids the session methods of the storage object are called with
StorageIds == {Lid1d2, Jid5d2}

\* ids its sender-key methods are called with
SenderKeyIds == {Lid1d2}

\* serialized records, opaque to this layer
Blobs == {"r1", "r2"}

PreKeyIds == {1}

(***************************************************************************)
(* SpecNormalize: normalizeLidToJid on every id, and the storage methods   *)
(* that look no mapping up (loadPreKey, removePreKey).                     *)
(* SpecStorage: the storage methods that normalize their id, two calls at  *)
(* a time.                                                                 *)
(***************************************************************************)

InitNormalize ==
    /\ \E t \in LidTables :
          kv = [k \in Kinds |->
                  CASE k = "lid-mapping" -> t
                    [] k = "pre-key" -> [i \in {NatToStr(1)} |-> "pk"]
                    [] OTHER -> EmptyTable]
    /\ last = [op |-> "init"]
    /\ processed = {}
    /\ OthersIdle

InitStorage ==
    /\ \E t \in LidTables :
          kv = [k \in Kinds |-> IF k = "lid-mapping" THEN t ELSE EmptyTable]
    /\ last = [op |-> "init"]
    /\ processed = {}
    /\ OthersIdle

\* what the 'lid-mapping' get of normalizeLidToJid(id, keys) returned
\* under the bare id: <<>> when the id was not looked up, when the get
\* threw and when there is no entry, <<mapped>> otherwise
LidMappingFound(id, keys) ==
    LET Entry(bare, res) == IF bare \in DOMAIN res THEN <<res[bare]>> ELSE <<>>
        Lookup(bare) == Entry(bare, LidMappingGet(keys, bare))
    IN  IF EndsWithCI(id, AtLid) THEN Lookup(BareLid(id)) ELSE <<>>

\* normalizeLidToJid(id, keys), and once more on its result
Normalize(id, f) ==
    LET n == normalizeLidToJid(id, Keys(f))
    IN  /\ last' = [op |-> "normalizeLidToJid", id |-> id, lidGetThrows |-> f,
                    threw |-> n.threw, out |-> n.val, log |-> NormalizeLog(id),
                    found |-> LidMappingFound(id, Keys(f)),
                    again |-> normalizeLidToJid(n.val, Keys(f)).val]
        /\ calls' = Interrupted("kv")
        /\ UNCHANGED <<kv, processed, others>>

\* keys.clear(): whoever holds the store empties it
clear ==
    /\ kv' = KeysClear(kv)
    /\ last' = [op |-> "clear", alone |-> Alone("kv")]
    /\ calls' = Interrupted("kv")
    /\ UNCHANGED <<processed, others>>

\* the record of a storage method that has returned or thrown; found is
\* what its 'lid-mapping' get returned
StorageReturned(op, id, f, found, r) ==
    [op |-> op, id |-> id, lidGetThrows |-> f, threw |-> r.threw,
     key |-> r.key, ret |-> r.ret, log |-> r.log, found |-> found]

\* one storage method applied in one step: the store and the record of the
\* call
StorageCall(op, id, f, r) ==
    /\ kv' = r.kv
    /\ last' = StorageReturned(op, id, f, <<>>, r)
    /\ calls' = Interrupted("kv")
    /\ UNCHANGED <<processed, others>>

\* the kind a storage method reads or writes, and whether it reads
StorageKind(op) ==
    IF op \in {"loadSession", "storeSession"} THEN "session" ELSE "sender-key"

StorageLoads(op) == op \in {"loadSession", "loadSenderKey"}

\* what a storage method does once normalizeLidToJid has returned norm
StorageAccess(keys, op, id, norm, arg) ==
    IF StorageLoads(op) THEN LoadNormalized(keys, StorageKind(op), norm)
    ELSE StoreNormalized(keys, StorageKind(op), id, norm, arg[1])

\* loadSession, storeSession, loadSenderKey or storeSenderKey is called.
\* For an id ending in @lid normalizeLidToJid awaits the 'lid-mapping' get
\* (line 33), which reads the table now; the method goes on with the
\* normalized id in a later step.  For any other id line 27 returns and the
\* method makes its one store access.
StorageCalled(op, id, f, arg) ==
    LET Rejected ==
            /\ last' = StorageReturned(op, id, f, <<>>,
                          StorageResult(TRUE, <<>>, id, kv, NormalizeLog(id)))
            /\ calls' = Interrupted("kv")
            /\ UNCHANGED kv
        Suspended(frame) ==
            /\ \E c \in DOMAIN calls :
                  /\ Free(c)
                  /\ calls' = [Interrupted("kv") EXCEPT ![c] = frame]
                  /\ last' = Awaiting(c, frame, "normalize")
            /\ UNCHANGED kv
        Normalized(n) ==
            IF n.threw THEN Rejected
            ELSE IF NormalizeLog(id) = <<>>
            THEN /\ kv' = StorageAccess(Keys(f), op, id, n.val, arg).kv
                 /\ last' = StorageReturned(op, id, f, <<>>,
                               StorageAccess(Keys(f), op, id, n.val, arg))
                 /\ calls' = Interrupted("kv")
            ELSE Suspended([CallIdle EXCEPT
                     !.pc = "normalized", !.op = op, !.side = "kv", !.id = id,
                     !.name = n.val, !.arg = arg, !.f = f,
                     !.held = LidMappingFound(id, Keys(f)),
                     !.log = NormalizeLog(id)])
    IN  /\ Normalized(normalizeLidToJid(id, Keys(f)))
        /\ UNCHANGED <<processed, others>>

StLoadSession(id, f) == StorageCalled("loadSession", id, f, <<>>)

StStoreSession(id, f, b) == StorageCalled("storeSession", id, f, <<b>>)

StLoadSenderKey(id, f) == StorageCalled("loadSenderKey", id, f, <<>>)

StStoreSenderKey(id, f, b) == StorageCalled("storeSenderKey", id, f, <<b>>)

\* the call goes on after `await normalizeLidToJid`: the store access under
\* the normalized id, and the method returns
StorageResumed(c) ==
    LET Done(frame, r) ==
            /\ kv' = r.kv
            /\ last' = StorageReturned(frame.op, frame.id, frame.f, frame.held,
                          AfterAccesses(frame.log, r))
        Resumed(frame) ==
            Done(frame, StorageAccess(Keys(frame.f), frame.op, frame.id,
                                      frame.name, frame.arg))
    IN  /\ calls[c].pc = "normalized"
        /\ Resumed(calls[c])
        /\ calls' = [calls EXCEPT ![c] = CallIdle]
        /\ UNCHANGED <<processed, others>>

\* loadSession and loadSenderKey after the normalization (lines 146, 178)
StLoaded(c) == StorageLoads(calls[c].op) /\ StorageResumed(c)

\* storeSession and storeSenderKey after the normalization (lines 153, 185)
StStored(c) == ~StorageLoads(calls[c].op) /\ StorageResumed(c)

StLoadPreKey(n) == StorageCall("loadPreKey", NatToStr(n), FALSE, loadPreKey(Keys(FALSE), n))

StRemovePreKey(n) ==
    StorageCall("removePreKey", NatToStr(n), FALSE, removePreKey(Keys(FALSE), n))

NextNormalize ==
    \/ \E id \in NormIds, f \in BOOLEAN : Normalize(id, f)
    \/ \E n \in PreKeyIds : StLoadPreKey(n)
    \/ \E n \in PreKeyIds : StRemovePreKey(n)
    \/ clear

SpecNormalize == InitNormalize /\ [][NextNormalize]_vars

NextStorage ==
    \/ \E id \in StorageIds, f \in BOOLEAN : StLoadSession(id, f)
    \/ \E id \in StorageIds, f \in BOOLEAN, b \in Blobs : StStoreSession(id, f, b)
    \/ \E id \in SenderKeyIds : StLoadSenderKey(id, FALSE)
    \/ \E id \in SenderKeyIds : StStoreSenderKey(id, FALSE, "k1")
    \/ \E c \in DOMAIN calls : StLoaded(c)
    \/ \E c \in DOMAIN calls : StStored(c)
    \/ clear

SpecStorage == InitStorage /\ [][NextStorage]_vars
(***************************************************************************)
(* Spec: the one-to-one operations of makeLibSignalRepository on every     *)
(* address.  Each step of an operation makes one store access: the step of *)
(* the call runs up to and with the first one, and the operation returns   *)
(* in the step of its last one.  One call is suspended at a time here, and *)
(* whatever runs in one step runs in between.                              *)
(***************************************************************************)

\* addresses no principal and device can be decoded from
BadJids == {NoServer, NoUser}

\* addresses the one-to-one operations are called with
DirectJids == {Lid1, Jid1} \cup BadJids

\* one call is suspended at a time
FrameCalls == {"a"}

\* key bundles of injectE2ESession
Bundles == {"bundle", "badSignature"}

\* ciphertexts of decryptMessage: authentic and in order, failing
\* authentication, or a replay outside the window
Ciphertexts == {"valid", "tampered", "replay"}

\* the type of a message: the two kinds the switch knows, and another
MessageTypes == {"pkmsg", "msg", "other"}

\* the messages decryptMessage is called with
Messages ==
    ({"pkmsg", "msg"} \X Ciphertexts) \cup {<<"other", "valid">>}

Init ==
    /\ \E t \in LidTables :
          kv = [k \in Kinds |->
                  CASE k = "lid-mapping" -> t
                    [] k = "pre-key" -> [i \in {NatToStr(MessagePreKeyId)} |-> "pk"]
                    [] OTHER -> EmptyTable]
    /\ last = [op |-> "init"]
    /\ processed = {}
    /\ peer = [k \in Kinds |-> EmptyTable]
    /\ wire = <<>>
    /\ tx = <<>>
    /\ calls = [c \in FrameCalls |-> CallIdle]

\* the chain a primitive is about to advance is within the bound of the
\* model
ChainsBounded(t) ==
    CASE t.pc = "store" -> t.held.put.n <= MaxChain
      [] t.pc = "preKey" -> IF t.held = <<>> THEN TRUE ELSE t.held[1].n < MaxChain
      [] t.pc = "encryptStore" ->
           \A i \in 1..Len(t.held.put) : t.held.put[i].iter <= MaxIter + 1
      [] OTHER -> TRUE

\* what a call does when its address cannot be resolved: the TypeError of
\* destructuring jidDecode(jid)!, thrown before any store access
Malformed(keys) == Throws(NoAccess(keys), "TypeError")

\* a repository call on the store of `side`: the store id (name) is derived
\* from the address, then the operation runs up to and with its first store
\* access (t)
RepositoryCall(op, side, jid, args, name, t) ==
    IF name.threw
    THEN Began(NewCall(op, side, jid, args, <<>>), Malformed(KeysOf(side)))
    ELSE /\ ChainsBounded(t)
         /\ Began(NewCall(op, side, jid, args, name.name), t)

\* the device left out of the store id: the devices of a user share one
SessionIdWithoutDevice(jid) ==
    LET Resolved(addr) ==
            [threw |-> addr.threw,
             name |-> IF addr.threw THEN <<>> ELSE addr.id]
    IN  Resolved(jidToSignalProtocolAddress(jid))

\* the store id of a session: jidToSignalProtocolAddress(jid).toString()
SessionId(jid) ==
    LET Resolved(addr) ==
            [threw |-> addr.threw,
             name |-> IF addr.threw THEN <<>> ELSE AddressToString(addr)]
    IN  Resolved(jidToSignalProtocolAddress(jid))

\* the session record written back whether or not the message decrypted
DecryptMessageCommitAlways(jid, type, ciphertext) ==
    LET Committed(t, st) ==
            IF t.threw /\ t.err = "DecryptionFailure"
            THEN [t EXCEPT !.kv = st.kv, !.log = @ \o st.log]
            ELSE t
        Decrypted(id) ==
            CASE type = "pkmsg" ->
                   SessionCipherDecryptPreKeyWhisperMessage(Keys(FALSE), id, ciphertext)
              [] type = "msg" ->
                   SessionCipherDecryptWhisperMessage(Keys(FALSE), id, ciphertext)
              [] OTHER -> Returns(NoAccess(Keys(FALSE)), <<>>)
        Resolved(addr) ==
            RepositoryCall("decryptMessage", "kv", jid, <<type, ciphertext>>, addr,
                Committed(Decrypted(addr.name),
                    storeSession(Keys(FALSE), addr.name,
                                 [n |-> 0, pending |-> FALSE])))
    IN  /\ Resolved(SessionId(jid))
        /\ UNCHANGED <<processed, others>>

\* decryptMessage({ jid, type, ciphertext }) up to the load of the session
\* record: the switch on type has no default, so any other type returns the
\* unassigned result
decryptMessage(jid, type, ciphertext) ==
    LET Decrypted(id) ==
            CASE type = "pkmsg" ->
                   SessionCipherDecryptPreKeyWhisperMessage(Keys(FALSE), id, ciphertext)
              [] type = "msg" ->
                   SessionCipherDecryptWhisperMessage(Keys(FALSE), id, ciphertext)
              [] OTHER -> Returns(NoAccess(Keys(FALSE)), <<>>)
        Resolved(addr) ==
            RepositoryCall("decryptMessage", "kv", jid, <<type, ciphertext>>, addr,
                Decrypted(addr.name))
    IN  /\ Resolved(SessionId(jid))
        /\ UNCHANGED <<processed, others>>

\* encryptMessage({ jid, data }) up to the load of the session record;
\* sigType 3 will be reported as "pkmsg"
encryptMessage(jid, data) ==
    LET Typed(e) ==
            IF e.pc = "idle" THEN e
            ELSE [e EXCEPT !.held.ret =
                    <<[type |-> IF @[1].type = 3 THEN "pkmsg" ELSE "msg",
                       ciphertext |-> @[1].body]>>]
        Resolved(addr) ==
            RepositoryCall("encryptMessage", "kv", jid, <<data>>, addr,
                Typed(SessionCipherEncrypt(Keys(FALSE), addr.name, data)))
    IN  /\ Resolved(SessionId(jid))
        /\ UNCHANGED <<processed, others>>

\* injectE2ESession({ jid, session }) up to the load of the session record
injectE2ESession(jid, session) ==
    LET Resolved(addr) ==
            RepositoryCall("injectE2ESession", "kv", jid, <<session>>, addr,
                SessionBuilderInitOutgoing(Keys(FALSE), addr.name, session))
    IN  /\ Resolved(SessionId(jid))
        /\ UNCHANGED <<processed, others>>

\* repository.jidToSignalProtocolAddress(jid): the address as a string
jidToSignalProtocolAddressString(jid) ==
    LET Resolved(addr) ==
            RepositoryCall("jidToSignalProtocolAddress", "kv", jid, <<>>, addr,
                Returns(NoAccess(Keys(FALSE)), <<addr.name>>))
    IN  /\ Resolved(SessionId(jid))
        /\ UNCHANGED <<processed, others>>

\* decryptPreKeyWhisperMessage goes on after `await loadSession`: the
\* pre-key is loaded (loadPreKey, line 158) and the message decrypted
PreKeyLoaded(c) ==
    /\ calls[c].pc = "preKey"
    /\ Went(c, SessionBuilderInitIncoming(KeysOf(calls[c].side), calls[c].held,
                                          calls[c].arg[2]))
    /\ UNCHANGED <<processed, others>>

\* a primitive stores the session record it has built (storeSession, line
\* 151); decryptPreKeyWhisperMessage has its pre-key to remove yet, the
\* other primitives are done and the operation returns
SessionStored(c) ==
    LET Stored(frame, st) ==
            IF frame.held.next = "idle" THEN Returns(st, frame.held.ret)
            ELSE Awaits(st, frame.held.next, frame.held)
    IN  /\ calls[c].pc = "store"
        /\ Went(c, Stored(calls[c],
                      storeSession(KeysOf(calls[c].side), calls[c].name,
                                   calls[c].held.put)))
        /\ UNCHANGED <<processed, others>>

\* decryptPreKeyWhisperMessage removes the pre-key (removePreKey, line 168)
\* and decryptMessage returns the plaintext
PreKeyRemoved(c) ==
    /\ calls[c].pc = "removePreKey"
    /\ Went(c, Returns(removePreKey(KeysOf(calls[c].side), MessagePreKeyId),
                       calls[c].held.ret))
    /\ UNCHANGED <<processed, others>>

(***************************************************************************)
(* The group operations of makeLibSignalRepository                         *)
(***************************************************************************)

\* addresses the group operations are called with: a sender known by its
\* @lid form, and an address without a principal
GroupJids == {Lid1, NoUser}

Groups == {Group1}

\* distribution payloads: bytes that do not parse, a payload the primitive
\* rejects while processing it, and the states of senders
Distributions ==
    [kind : {"malformed", "rejected"}, keyId : {1}, iter : {0}]
        \cup [kind : {"state"}, keyId : KeyIds, iter : {0}]

\* the key ids group ciphertexts name: one more than senders have announced
MessageKeyIds == KeyIds \cup {2}

\* group ciphertexts: the key id and iteration they were sent under, and
\* whether the signature verifies
GroupMessages ==
    [keyId : MessageKeyIds, iter : 0..MaxIter, auth : {"valid", "tampered"},
     data : {"data"}]

\* every stored sender-key chain has room within the bound of the model
ItersBounded(store) ==
    \A id \in DOMAIN store["sender-key"] :
        \A i \in 1..Len(store["sender-key"][id]) :
            store["sender-key"][id][i].iter <= MaxIter

\* the existence check answers "no record" whatever the get returned
SenderKeyMissingAlways(got, senderName) == TRUE

\* const { [senderName]: senderKey } = got; if (!senderKey)
SenderKeyMissing(got, senderName) == senderName \notin DOMAIN got

\* processSenderKeyDistributionMessage and encryptGroupMessage once the
\* sender-key name is known: `await auth.keys.get("sender-key",
\* [senderName])` reads the store; the empty record is stored next when the
\* test `if (!senderKey)` finds none, else the primitive is called (next)
SenderKeyChecked(keys, senderName, next) ==
    LET Checked(got) ==
            Awaits([kv |-> keys.kv,
                    log |-> <<Access("get", "sender-key", senderName)>>],
                   IF SenderKeyMissing(got, senderName) THEN "storeEmpty"
                   ELSE next,
                   <<>>)
    IN  Checked(KeysGet(keys.kv, "sender-key", {senderName}))

\* senderKeyDistributionMessage.serialize() of a message taken once the
\* chain has moved on: it describes the chain after the ciphertext
SerializeAdvanced(d) == [kind |-> "state", keyId |-> d.keyId, iter |-> d.iter + 1]

\* senderKeyDistributionMessage.serialize(): the payload that
\* new SenderKeyDistributionMessage(null, null, null, null, bytes) parses
SerializeDistribution(d) == [kind |-> "state", keyId |-> d.keyId, iter |-> d.iter]

\* processSenderKeyDistributionMessage({ item, authorJid }), item being
\* { groupId, axolotlSenderKeyDistributionMessage }, on the store of `side`,
\* up to the existence check: the name (line 59), the payload parsed (lines
\* 61-67), the get (line 68)
ProcessCalled(side, group, authorJid, payload) ==
    LET Named(name) ==
            RepositoryCall("processSenderKeyDistributionMessage", side,
                authorJid, <<group, payload>>, name,
                IF ~ParsesAsDistribution(payload)
                THEN Throws(NoAccess(KeysOf(side)), "MalformedDistribution")
                ELSE SenderKeyChecked(KeysOf(side), name.name, "process"))
    IN  /\ Named(jidToSignalSenderKeyName(group, authorJid))
        /\ UNCHANGED processed

processSenderKeyDistributionMessage(group, authorJid, payload) ==
    /\ ProcessCalled("kv", group, authorJid, payload)
    /\ UNCHANGED <<wire, tx>>

\* encryptGroupMessage({ group, meId, data }) up to the existence check:
\* the name (line 99), the get (line 102)
encryptGroupMessage(group, meId, data) ==
    LET Named(name) ==
            RepositoryCall("encryptGroupMessage", "kv", meId, <<group, data>>,
                name, SenderKeyChecked(Keys(FALSE), name.name, "create"))
        Bounded(name) ==
            /\ IF name.threw THEN TRUE ELSE ItersBounded(kv)
            /\ Named(name)
    IN  /\ Bounded(jidToSignalSenderKeyName(group, meId))
        /\ UNCHANGED <<processed, wire, tx>>

\* `await storage.storeSenderKey(senderName, new SenderKeyRecord())` of a
\* call whose check found no record (lines 70 and 104); the primitive is
\* called next
EmptyRecordStored(c) ==
    LET Stored(frame, st) ==
            Awaits(st,
                   IF frame.op = "encryptGroupMessage" THEN "create" ELSE "process",
                   <<>>)
    IN  /\ calls[c].pc = "storeEmpty"
        /\ Went(c, Stored(calls[c],
                      storeSenderKey(KeysOf(calls[c].side), calls[c].name,
                                     EmptySenderKeyRecord)))
        /\ UNCHANGED <<processed, wire, tx>>

\* `await builder.process(senderName, senderMsg)` (line 73) up to the load
\* of the record: the primitive throws, or it has the record to store
ProcessLoaded(c) ==
    /\ calls[c].pc = "process"
    /\ Went(c, GroupSessionBuilderProcess(KeysOf(calls[c].side), calls[c].name,
                                          calls[c].arg[2]))
    /\ UNCHANGED <<processed, wire, tx>>

\* builder.process stores the record with the state of the payload, and
\* processSenderKeyDistributionMessage returns
ProcessResumed(c) ==
    /\ calls[c].pc = "processStore"
    /\ Went(c, Returns(storeSenderKey(KeysOf(calls[c].side), calls[c].name,
                                      calls[c].held.put),
                       <<>>))
    /\ processed' = processed \cup {calls[c].name}

DistributionProcessed(c) == ProcessResumed(c) /\ UNCHANGED <<wire, tx>>

\* `await builder.create(senderName)` (line 107) up to the load of the
\* record; fresh is the key id it draws for a new state; when it throws, so
\* does encryptGroupMessage
CreateLoaded(c, fresh) ==
    /\ calls[c].pc = "create"
    /\ Went(c, GroupSessionBuilderCreate(KeysOf(calls[c].side), calls[c].name,
                                         fresh))
    /\ UNCHANGED <<processed, wire, tx>>

\* builder.create stores the record with its fresh state and returns the
\* distribution message; `await session.encrypt(data)` is called next
DistributionCreated(c) ==
    /\ calls[c].pc = "createStore"
    /\ Went(c, Awaits(storeSenderKey(KeysOf(calls[c].side), calls[c].name,
                                     calls[c].held.put),
                      "encrypt", [dm |-> calls[c].held.dm]))
    /\ UNCHANGED <<processed, wire, tx>>

\* `await session.encrypt(data)` (lines 108-109) up to the load of the
\* record
EncryptLoaded(c) ==
    LET Loaded(t) == ChainsBounded(t) /\ Went(c, t)
    IN  /\ calls[c].pc = "encrypt"
        /\ Loaded(GroupCipherEncrypt(KeysOf(calls[c].side), calls[c].name,
                                     calls[c].arg[2], calls[c].held.dm))
        /\ UNCHANGED <<processed, wire, tx>>

\* session.encrypt stores the record with its chain moved on, and
\* encryptGroupMessage returns the ciphertext with the serialized
\* distribution message (lines 111-114)
EncryptResumed(c) ==
    /\ calls[c].pc = "encryptStore"
    /\ Went(c, Returns(storeSenderKey(KeysOf(calls[c].side), calls[c].name,
                                      calls[c].held.put),
                       <<[ciphertext |-> calls[c].held.ret,
                          senderKeyDistributionMessage |->
                              SerializeDistribution(calls[c].held.dm)]>>))
    /\ UNCHANGED processed

GroupEncrypted(c) == EncryptResumed(c) /\ UNCHANGED <<wire, tx>>

\* decryptGroupMessage({ group, authorJid, msg }) on the store of `side`, up
\* to the load of the record by cipher.decrypt(msg) (line 55)
DecryptCalled(side, group, authorJid, msg) ==
    LET Named(name) ==
            RepositoryCall("decryptGroupMessage", side, authorJid,
                <<group, msg>>, name,
                GroupCipherDecrypt(KeysOf(side), name.name, msg))
    IN  /\ Named(jidToSignalSenderKeyName(group, authorJid))
        /\ UNCHANGED processed

decryptGroupMessage(group, authorJid, msg) ==
    /\ DecryptCalled("kv", group, authorJid, msg)
    /\ UNCHANGED <<wire, tx>>

\* cipher.decrypt stores the record with its chain moved past the message,
\* and decryptGroupMessage returns the plaintext
DecryptResumed(c) ==
    /\ calls[c].pc = "decryptStore"
    /\ Went(c, Returns(storeSenderKey(KeysOf(calls[c].side), calls[c].name,
                                      calls[c].held.put),
                       calls[c].held.ret))
    /\ UNCHANGED processed

GroupDecrypted(c) == DecryptResumed(c) /\ UNCHANGED <<wire, tx>>

Next ==
    \/ \E jid \in DirectJids, m \in Messages : decryptMessage(jid, m[1], m[2])
    \/ \E jid \in DirectJids : encryptMessage(jid, "data")
    \/ \E jid \in DirectJids, b \in Bundles : injectE2ESession(jid, b)
    \/ \E c \in DOMAIN calls : PreKeyLoaded(c)
    \/ \E c \in DOMAIN calls : SessionStored(c)
    \/ \E c \in DOMAIN calls : PreKeyRemoved(c)
    \/ \E jid \in DirectJids : jidToSignalProtocolAddressString(jid)
    \/ \E g \in Groups, jid \in BadJids, m \in GroupMessages :
          decryptGroupMessage(g, jid, m)
    \/ \E g \in Groups, jid \in BadJids, d \in Distributions :
          processSenderKeyDistributionMessage(g, jid, d)
    \/ \E g \in Groups, jid \in BadJids : encryptGroupMessage(g, jid, "data")
    \/ clear

Spec == Init /\ [][Next]_vars

(***************************************************************************)
(* SpecSession: the one-to-one operations for one address, two calls at a  *)
(* time, each suspended at every store access it makes                     *)
(***************************************************************************)

\* the address both calls are about
SessionJids == {Jid5}

NextSession ==
    \/ \E jid \in SessionJids, m \in Messages : decryptMessage(jid, m[1], m[2])
    \/ \E jid \in SessionJids : encryptMessage(jid, "data")
    \/ \E jid \in SessionJids, b \in Bundles : injectE2ESession(jid, b)
    \/ \E c \in DOMAIN calls : PreKeyLoaded(c)
    \/ \E c \in DOMAIN calls : SessionStored(c)
    \/ \E c \in DOMAIN calls : PreKeyRemoved(c)
    \/ clear

\* the store holds the pre-key that pre-key messages name
InitSession ==
    /\ kv = [k \in Kinds |->
               IF k = "pre-key" THEN [i \in {NatToStr(MessagePreKeyId)} |-> "pk"]
               ELSE EmptyTable]
    /\ last = [op |-> "init"]
    /\ processed = {}
    /\ OthersIdle

SpecSession == InitSession /\ [][NextSession]_vars

(***************************************************************************)
(* SpecPair: the one-to-one operations for two devices of one user, two    *)
(* calls at a time, each suspended at every store access it makes          *)
(***************************************************************************)

\* two addresses that differ in their device only
PairJids == {Jid5, Jid5d2}

\* messages that decrypt, and one that does not
PairMessages == {<<"pkmsg", "valid">>, <<"msg", "valid">>, <<"msg", "tampered">>}

NextPair ==
    \/ \E jid \in PairJids, m \in PairMessages : decryptMessage(jid, m[1], m[2])
    \/ \E jid \in PairJids : encryptMessage(jid, "data")
    \/ \E jid \in PairJids : injectE2ESession(jid, "bundle")
    \/ \E c \in DOMAIN calls : PreKeyLoaded(c)
    \/ \E c \in DOMAIN calls : SessionStored(c)
    \/ \E c \in DOMAIN calls : PreKeyRemoved(c)
    \/ clear

SpecPair == InitSession /\ [][NextPair]_vars

(***************************************************************************)
(* SpecGroup: the group operations on every address, two calls at a time   *)
(***************************************************************************)

\* the group ciphertexts of this specification: what decrypts, and one of
\* each way of failing
SomeGroupMessages ==
    {m \in GroupMessages :
        \/ m.keyId \in KeyIds /\ m.auth = "valid"
        \/ m.iter = 0 /\ (m.keyId \in KeyIds) # (m.auth = "valid")}

NextGroup ==
    \/ \E g \in Groups, jid \in GroupJids, d \in Distributions :
          processSenderKeyDistributionMessage(g, jid, d)
    \/ \E g \in Groups, jid \in GroupJids : encryptGroupMessage(g, jid, "data")
    \/ \E c \in DOMAIN calls : EmptyRecordStored(c)
    \/ \E c \in DOMAIN calls : ProcessLoaded(c)
    \/ \E c \in DOMAIN calls : DistributionProcessed(c)
    \/ \E c \in DOMAIN calls, k \in KeyIds : CreateLoaded(c, k)
    \/ \E c \in DOMAIN calls : DistributionCreated(c)
    \/ \E c \in DOMAIN calls : EncryptLoaded(c)
    \/ \E c \in DOMAIN calls : GroupEncrypted(c)
    \/ \E g \in Groups, jid \in GroupJids, m \in SomeGroupMessages :
          decryptGroupMessage(g, jid, m)
    \/ \E c \in DOMAIN calls : GroupDecrypted(c)
    \/ clear

\* the store knows the canonical form of the sender; it holds no record yet
InitGroup ==
    /\ kv = [k \in Kinds |-> IF k = "lid-mapping" THEN SomeMapping ELSE EmptyTable]
    /\ last = [op |-> "init"]
    /\ processed = {}
    /\ OthersIdle

SpecGroup == InitGroup /\ [][NextGroup]_vars

(***************************************************************************)
(* SpecRound: a sender and a receiver of one group, each with its own      *)
(* store (kv is the sender's, peer the receiver's).  Each party makes its  *)
(* calls one after another, and the two parties run side by side: a call   *)
(* of one is suspended at its store accesses while the other goes on.  The *)
(* messages sent are on their way in the order they were sent (wire), and  *)
(* the receiver takes them one by one.                                     *)
(***************************************************************************)

RoundJids == {Lid1, Jid5}

RoundData == {"m1", "m2"}

InitRound ==
    /\ kv = [k \in Kinds |-> EmptyTable]
    /\ last = [op |-> "init"]
    /\ processed = {}
    /\ OthersIdle

\* the sender, its last call returned, calls encryptGroupMessage
RoundSend(group, jid, data) ==
    /\ Alone("kv")
    /\ encryptGroupMessage(group, jid, data)

\* the sender's call returns, and the sender sends what it returned
RoundSent(c) ==
    /\ calls[c].side = "kv"
    /\ EncryptResumed(c)
    /\ wire' = Append(wire,
                  [group |-> last'.args[1], jid |-> last'.jid,
                   name |-> last'.addr, data |-> last'.args[2],
                   ciphertext |-> last'.ret[1].ciphertext,
                   distribution |-> last'.ret[1].senderKeyDistributionMessage,
                   stage |-> "sent"])
    /\ UNCHANGED tx

\* the receiver, its last call returned, calls
\* processSenderKeyDistributionMessage with the payload of the next message
RoundProcess ==
    /\ wire # <<>>
    /\ wire[1].stage = "sent"
    /\ Alone("peer")
    /\ ProcessCalled("peer", wire[1].group, wire[1].jid, wire[1].distribution)
    /\ UNCHANGED <<wire, tx>>

\* the receiver's call returns: the payload is processed
RoundProcessed(c) ==
    /\ calls[c].side = "peer"
    /\ ProcessResumed(c)
    /\ wire' = [wire EXCEPT ![1].stage = "processed"]
    /\ UNCHANGED tx

\* the receiver, its calls returned, calls decryptGroupMessage with the
\* ciphertext; the message is done with when the call throws
RoundDecrypt ==
    /\ wire # <<>>
    /\ wire[1].stage = "processed"
    /\ Alone("peer")
    /\ DecryptCalled("peer", wire[1].group, wire[1].jid, wire[1].ciphertext)
    /\ wire' = IF last'.op = "await" THEN wire ELSE Tail(wire)
    /\ UNCHANGED tx

\* the receiver's call returns the plaintext
RoundDecrypted(c) ==
    /\ calls[c].side = "peer"
    /\ DecryptResumed(c)
    /\ wire' = Tail(wire)
    /\ UNCHANGED tx

\* the next message never reaches the receiver
RoundLose ==
    /\ wire # <<>>
    /\ wire[1].stage = "sent"
    /\ Alone("peer")
    /\ wire' = Tail(wire)
    /\ last' = [op |-> "lost", jid |-> wire[1].jid]
    /\ UNCHANGED <<kv, processed, peer, tx, calls>>

NextRound ==
    \/ \E g \in Groups, jid \in RoundJids, data \in RoundData :
          RoundSend(g, jid, data)
    \/ \E c \in DOMAIN calls : EmptyRecordStored(c)
    \/ \E c \in DOMAIN calls, k \in KeyIds : CreateLoaded(c, k)
    \/ \E c \in DOMAIN calls : DistributionCreated(c)
    \/ \E c \in DOMAIN calls : EncryptLoaded(c)
    \/ \E c \in DOMAIN calls : RoundSent(c)
    \/ RoundProcess
    \/ \E c \in DOMAIN calls : ProcessLoaded(c)
    \/ \E c \in DOMAIN calls : RoundProcessed(c)
    \/ RoundDecrypt
    \/ \E c \in DOMAIN calls : RoundDecrypted(c)
    \/ RoundLose

SpecRound == InitRound /\ [][NextRound]_vars

(***************************************************************************)
(* SpecFrame: every operation of the repository and of the storage object  *)
(* on one store                                                            *)
(***************************************************************************)

FrameJids == {Jid5}

\* the id the session methods of the storage object are called with
FrameIds == {Lid1d2}

\* the messages and payloads of this specification: what decrypts, and of
\* what fails one of each way of failing
FrameMessages == {m \in Messages : m[2] # "replay"}

FrameDistributions == {d \in Distributions : d.kind # "rejected"}

FrameGroupMessages ==
    {m \in GroupMessages : m.keyId \in KeyIds /\ (m.auth = "valid" \/ m.iter = 0)}

\* the records libsignal hands to storeSession and storeSenderKey
FrameSession == [n |-> 0, pending |-> FALSE]

FrameSenderKey == <<[keyId |-> 1, iter |-> 0]>>

NextFrame ==
    \/ \E jid \in FrameJids, m \in FrameMessages : decryptMessage(jid, m[1], m[2])
    \/ \E jid \in FrameJids : encryptMessage(jid, "data")
    \/ \E jid \in FrameJids, b \in Bundles : injectE2ESession(jid, b)
    \/ \E c \in DOMAIN calls : PreKeyLoaded(c)
    \/ \E c \in DOMAIN calls : SessionStored(c)
    \/ \E c \in DOMAIN calls : PreKeyRemoved(c)
    \/ \E g \in Groups, jid \in FrameJids, d \in FrameDistributions :
          processSenderKeyDistributionMessage(g, jid, d)
    \/ \E g \in Groups, jid \in FrameJids : encryptGroupMessage(g, jid, "data")
    \/ \E c \in DOMAIN calls : EmptyRecordStored(c)
    \/ \E c \in DOMAIN calls : ProcessLoaded(c)
    \/ \E c \in DOMAIN calls : DistributionProcessed(c)
    \/ \E c \in DOMAIN calls, k \in KeyIds : CreateLoaded(c, k)
    \/ \E c \in DOMAIN calls : DistributionCreated(c)
    \/ \E c \in DOMAIN calls : EncryptLoaded(c)
    \/ \E c \in DOMAIN calls : GroupEncrypted(c)
    \/ \E g \in Groups, jid \in FrameJids, m \in FrameGroupMessages :
          decryptGroupMessage(g, jid, m)
    \/ \E c \in DOMAIN calls : GroupDecrypted(c)
    \/ \E id \in FrameIds : StLoadSession(id, FALSE)
    \/ \E id \in FrameIds : StStoreSession(id, FALSE, FrameSession)
    \/ \E g \in Groups, jid \in FrameJids :
          StLoadSenderKey(jidToSignalSenderKeyName(g, jid).name, FALSE)
    \/ \E g \in Groups, jid \in FrameJids :
          StStoreSenderKey(jidToSignalSenderKeyName(g, jid).name, FALSE,
                           FrameSenderKey)
    \/ \E c \in DOMAIN calls : StLoaded(c)
    \/ \E c \in DOMAIN calls : StStored(c)
    \/ \E n \in PreKeyIds : StLoadPreKey(n)
    \/ \E n \in PreKeyIds : StRemovePreKey(n)
    \/ clear

\* the store knows a mapping and holds the pre-key that pre-key messages name
InitFrame ==
    /\ kv = [k \in Kinds |->
               CASE k = "lid-mapping" -> SomeMapping
                 [] k = "pre-key" -> [i \in {NatToStr(MessagePreKeyId)} |-> "pk"]
                 [] OTHER -> EmptyTable]
    /\ last = [op |-> "init"]
    /\ processed = {}
    /\ peer = [k \in Kinds |-> EmptyTable]
    /\ wire = <<>>
    /\ tx = <<>>
    /\ calls = [c \in FrameCalls |-> CallIdle]

SpecFrame == InitFrame /\ [][NextFrame]_vars

(***************************************************************************)
(* SpecTx: the transaction capability of the key store                     *)
(* (SignalKeyStoreWithTransaction).  Two callers each run transactions     *)
(* whose body writes the same 'session' id; a commit may meet a conflict.  *)
(***************************************************************************)

\* TransactionCapabilityOptions.maxCommitRetries
maxCommitRetries == 2

Callers == {"t1", "t2"}

\* what a commit conflict reports
ConflictCauses == {"busy", "stale"}

\* the id both callers write
TxId == <<"5", ".", "0">>

\* no transaction open on the caller's context
TxIdle ==
    [pc |-> "idle", retries |-> 0, inTransaction |-> FALSE, lastConflict |-> "",
     err |-> "", cause |-> ""]

InitTx ==
    /\ kv = [k \in Kinds |-> EmptyTable]
    /\ last = [op |-> "init"]
    /\ processed = {}
    /\ peer = [k \in Kinds |-> EmptyTable]
    /\ wire = <<>>
    /\ tx = [c \in Callers |-> TxIdle]
    /\ calls = [c \in CallIds |-> CallIdle]

\* isInTransaction() on the caller's context
isInTransaction(c) == tx[c].inTransaction

\* transaction(exec) is entered and exec has run: its writes wait for the
\* commit
TxBegin(c) ==
    /\ tx[c].pc = "idle"
    /\ tx' = [tx EXCEPT ![c] = [TxIdle EXCEPT !.pc = "open", !.inTransaction = TRUE]]
    /\ last' = [op |-> "transaction", caller |-> c, step |-> "begin"]
    /\ UNCHANGED <<kv, processed, peer, wire, calls>>

\* the commit goes through: the writes of exec reach the store
TxCommit(c) ==
    /\ tx[c].pc = "open"
    /\ kv' = KeysSet(kv, ("session" :> (TxId :> <<c>>)))
    /\ tx' = [tx EXCEPT ![c].pc = "committed", ![c].inTransaction = FALSE]
    /\ last' = [op |-> "transaction", caller |-> c, step |-> "commit"]
    /\ UNCHANGED <<processed, peer, wire, calls>>

\* the first conflict is the one reported when the retries run out
TxConflictKeepFirst(c, why) ==
    /\ tx[c].pc = "open"
    /\ tx' = [tx EXCEPT ![c] =
                IF tx[c].retries < maxCommitRetries
                THEN [@ EXCEPT !.retries = @ + 1, !.lastConflict = why,
                               !.cause = IF tx[c].cause = "" THEN why ELSE tx[c].cause]
                ELSE [@ EXCEPT !.pc = "exhausted", !.inTransaction = FALSE,
                               !.lastConflict = why, !.err = "TransactionExhausted",
                               !.cause = IF tx[c].cause = "" THEN why ELSE tx[c].cause]]
    /\ last' = [op |-> "transaction", caller |-> c, step |-> "conflict"]
    /\ UNCHANGED <<kv, processed, peer, wire, calls>>

\* the commit meets a conflict: another try after delayBetweenTriesMs while
\* retries are left, TransactionExhausted with the cause of this conflict
\* when none is
TxConflict(c, why) ==
    /\ tx[c].pc = "open"
    /\ tx' = [tx EXCEPT ![c] =
                IF tx[c].retries < maxCommitRetries
                THEN [@ EXCEPT !.retries = @ + 1, !.lastConflict = why]
                ELSE [@ EXCEPT !.pc = "exhausted", !.inTransaction = FALSE,
                               !.lastConflict = why, !.err = "TransactionExhausted",
                               !.cause = why]]
    /\ last' = [op |-> "transaction", caller |-> c, step |-> "conflict"]
    /\ UNCHANGED <<kv, processed, peer, wire, calls>>

\* one commit attempt of the caller's transaction
TxAttempt(c) == TxCommit(c) \/ \E why \in ConflictCauses : TxConflict(c, why)

\* transaction(exec) has returned or thrown; the caller may start another
TxEnd(c) ==
    /\ tx[c].pc \in {"committed", "exhausted"}
    /\ tx' = [tx EXCEPT ![c] = TxIdle]
    /\ last' = [op |-> "transaction", caller |-> c, step |-> "end"]
    /\ UNCHANGED <<kv, processed, peer, wire, calls>>

NextTx ==
    \/ \E c \in Callers : TxBegin(c)
    \/ \E c \in Callers : TxCommit(c)
    \/ \E c \in Callers, why \in ConflictCauses : TxConflict(c, why)
    \/ \E c \in Callers : TxEnd(c)

\* a commit that is due is attempted: the retry timer fires
SpecTx ==
    /\ InitTx
    /\ [][NextTx]_vars
    /\ \A c \in Callers : WF_vars(TxAttempt(c))

(***************************************************************************)
(* SpecRace: two calls among processSenderKeyDistributionMessage and       *)
(* encryptGroupMessage for one sender-key name on a store that starts      *)
(* empty, each suspended at every store access it makes                    *)
(***************************************************************************)

\* the sender both calls are about
RaceJids == {Jid5}

\* payloads that parse, so that the call reaches its first await
RaceDistributions == {d \in Distributions : ParsesAsDistribution(d)}

InitRace ==
    /\ kv = [k \in Kinds |-> EmptyTable]
    /\ last = [op |-> "init"]
    /\ processed = {}
    /\ OthersIdle

NextRace ==
    \/ \E g \in Groups, jid \in RaceJids, d \in RaceDistributions :
          processSenderKeyDistributionMessage(g, jid, d)
    \/ \E g \in Groups, jid \in RaceJids : encryptGroupMessage(g, jid, "data")
    \/ \E c \in DOMAIN calls : EmptyRecordStored(c)
    \/ \E c \in DOMAIN calls : ProcessLoaded(c)
    \/ \E c \in DOMAIN calls : DistributionProcessed(c)
    \/ \E c \in DOMAIN calls, k \in KeyIds : CreateLoaded(c, k)
    \/ \E c \in DOMAIN calls : DistributionCreated(c)
    \/ \E c \in DOMAIN calls : EncryptLoaded(c)
    \/ \E c \in DOMAIN calls : GroupEncrypted(c)
    \/ clear

SpecRace == InitRace /\ [][NextRace]_vars

(***************************************************************************)
(* SpecAddress: two addresses resolved side by side                        *)
(***************************************************************************)

Jid12 == <<"1", "2">> \o AtSWhatsAppNet

Jid1d20 == <<"1", ":", "2", "0">> \o AtSWhatsAppNet

\* a group id that itself holds the separator of sender-key names
Group1Colons == <<"g", ":", ":", "1">>

AddressJids == {Lid1, Lid1d2, Lid1d02, Jid1, Jid12, Jid1d20, Jid5, Addr1d0, NoUser}

AddressGroups == {Group1, Group1Colons}

InitAddress ==
    /\ kv = [k \in Kinds |-> EmptyTable]
    /\ last = [op |-> "init"]
    /\ processed = {}
    /\ OthersIdle

\* jidToSignalProtocolAddress and jidToSignalSenderKeyName on one member
\* of one group: the address, its store key and its sender-key name
Resolution(group, jid) ==
    LET Resolved(addr, name) ==
            [threw |-> addr.threw,
             id |-> addr.id, deviceId |-> addr.deviceId, group |-> group,
             key |-> IF addr.threw THEN <<>> ELSE AddressToString(addr),
             name |-> name.name]
    IN  Resolved(jidToSignalProtocolAddress(jid), jidToSignalSenderKeyName(group, jid))

ResolvePair(g1, jid1, g2, jid2) ==
    /\ last' = [op |-> "resolve", jids |-> <<jid1, jid2>>,
                first |-> Resolution(g1, jid1), second |-> Resolution(g2, jid2)]
    /\ UNCHANGED <<kv, processed, calls, others>>

NextAddress ==
    \E g1 \in AddressGroups, g2 \in AddressGroups,
       jid1 \in AddressJids, jid2 \in AddressJids : ResolvePair(g1, jid1, g2, jid2)

SpecAddress == InitAddress /\ [][NextAddress]_vars
(***************************************************************************)
(* Claims on the normalizer: C5 under SpecStorage, C6 to C8 under          *)
(* SpecNormalize                                                           *)
(***************************************************************************)

StorageOps == {"loadSession", "storeSession", "loadSenderKey", "storeSenderKey"}

NormalizingOps == StorageOps \cup {"normalizeLidToJid"}

\* the value an operation went on with: what normalizeLidToJid returned, or
\* the store id the storage method used
Normalized == IF last.op = "normalizeLidToJid" THEN last.out ELSE last.key

\* the last operation looked the mapping up and the lookup threw or
\* returned no entry under the id it asked for
LookupFailed ==
    /\ last.op \in NormalizingOps
    /\ Len(last.log) > 0
    /\ last.log[1].kind = "lid-mapping"
    /\ \/ last.lidGetThrows
       \/ last.found = <<>>

\* C5: when the 'lid-mapping' lookup throws or returns no entry, the
\* normalizer yields the original id, nothing is raised to the caller, and
\* the enclosing storage method goes on to read or write the store under
\* that id.
C5_LookupFailureFallsBack ==
    LookupFailed =>
        /\ ~last.threw
        /\ Normalized = last.id
        /\ last.op \in StorageOps =>
              /\ Len(last.log) = 2
              /\ last.log[2].id = last.id
              /\ last.log[2].kind \in {"session", "sender-key"}

\* a storeSession for 1:2@lid whose lookup threw although the table maps
\* 1@lid: the session is stored under 1:2@lid itself
C5_Witness ==
    /\ last.op = "storeSession"
    /\ last.id = Lid1d2
    /\ last.lidGetThrows
    /\ Lid1 \in DOMAIN kv["lid-mapping"]
    /\ ~last.threw
    /\ Lid1d2 \in DOMAIN kv["session"]

\* the address forms a = user@lid and a = user:digits@lid of the claims,
\* parsed without the code's regular expressions
ClaimLids == {Lid1, Lid1d2, Lid1d2Upper, Lid1d02, Lid7, Lid8d1, Lid9d3}

ClaimUser(a) ==
    Take(a, (IF Contains(a, ":") THEN IndexOf(a, ":") ELSE IndexOf(a, "@")) - 1)

ClaimDevice(a) ==
    IF Contains(a, ":") THEN SubSeq(a, IndexOf(a, ":"), IndexOf(a, "@") - 1)
    ELSE <<>>

ClaimBare(a) == ClaimUser(a) \o AtLid

\* c with a device suffix put before its "@"
ClaimReattach(c, device) ==
    Take(c, IndexOf(c, "@") - 1) \o device \o Drop(c, IndexOf(c, "@") - 1)

\* the last operation normalized a well-formed @lid address, and its
\* lookup returned a non-empty entry
MappedLookup ==
    /\ last.op \in NormalizingOps
    /\ last.id \in ClaimLids
    /\ ~last.lidGetThrows
    /\ last.found # <<>>
    /\ last.found[1] # <<>>

\* the entry the lookup returned
MappedTo == last.found[1]

\* C6: whatever the non-empty mapped value c is, the result is c with the
\* device suffix of a re-attached (c itself when a has none), and the lookup
\* key is the bare form.
C6_Original ==
    MappedLookup =>
        /\ Normalized = ClaimReattach(MappedTo, ClaimDevice(last.id))
        /\ last.log[1].id = ClaimBare(last.id)

\* the id is in the alternate scheme: its last four characters are @lid,
\* in any letter case
ClaimEndsInLid(a) ==
    /\ Len(a) >= 4
    /\ LowerStr(SubSeq(a, Len(a) - 3, Len(a))) = AtLid

\* C7: an id that does not end in @lid is returned unchanged, whatever the
\* mapping table holds.
C7_NonLidUnchanged ==
    (last.op \in NormalizingOps /\ ~ClaimEndsInLid(last.id))
        => ~last.threw /\ Normalized = last.id

\* 5@s.whatsapp.net normalized while the table holds an entry under that
\* very id (the reverse entry 5@s.whatsapp.net -> 1@lid)
C7_Witness ==
    /\ last.op = "normalizeLidToJid"
    /\ last.id = Jid5
    /\ ~last.lidGetThrows
    /\ Jid5 \in DOMAIN kv["lid-mapping"]
    /\ last.out = Jid5

\* C8: normalizing the result of a normalization again, against the same
\* store, changes nothing.
C8_Idempotent ==
    last.op = "normalizeLidToJid" => last.again = last.out

\* 1:2@lid became 5:2@s.whatsapp.net, and 5:2@s.whatsapp.net stays
C8_Witness ==
    /\ last.op = "normalizeLidToJid"
    /\ last.id = Lid1d2
    /\ last.out = Jid5d2
    /\ last.again = Jid5d2

(***************************************************************************)
(* Claims on the one-to-one operations, checked under Spec (C3 under       *)
(* SpecSession)                                                            *)
(***************************************************************************)

SessionOps == {"encryptMessage", "decryptMessage", "injectE2ESession"}

\* the 'lid-mapping' table maps 1@lid to 5@s.whatsapp.net
Lid1MappedToJid5 ==
    /\ Lid1 \in DOMAIN kv["lid-mapping"]
    /\ kv["lid-mapping"][Lid1] = Jid5

\* the 'session' store key of a call with the canonical form 5@s.whatsapp.net
CanonicalSessionKey == AddressToString(jidToSignalProtocolAddress(Jid5))

\* C1: with 1@lid mapped to 5@s.whatsapp.net, encryptMessage, decryptMessage
\* and injectE2ESession called with 1@lid read and write the 'session' key
\* that the calls with 5@s.whatsapp.net use
C1_SameSessionKey ==
    (last.op \in SessionOps /\ last.jid = Lid1 /\ Lid1MappedToJid5) =>
        \A i \in 1..Len(last.log) :
            last.log[i].kind = "session" => last.log[i].id = CanonicalSessionKey

\* C3: a decryptMessage that fails leaves the 'session' records as they
\* were and makes no write of a session record
C3_FailedDecryptKeepsSession ==
    [][(last'.op = "decryptMessage" /\ last'.threw) =>
          /\ kv'["session"] = kv["session"]
          /\ \A i \in 1..Len(last'.log) :
                ~(last'.log[i].m = "set" /\ last'.log[i].kind = "session")]_vars

\* decryptMessage failed on a tampered message for an address that has a
\* session record
C3_Witness ==
    /\ last.op = "decryptMessage"
    /\ last.threw
    /\ last.err = "DecryptionFailure"
    /\ last.args \in {<<"msg", "tampered">>, <<"msg", "replay">>}
    /\ last.addr \in DOMAIN kv["session"]

\* the operations of the repository
RepositoryOps ==
    SessionOps \cup
    {"jidToSignalProtocolAddress", "processSenderKeyDistributionMessage",
     "encryptGroupMessage", "decryptGroupMessage"}

\* an address with no "@" or with nothing before it
ClaimUndecodable(jid) ==
    \/ \A i \in 1..Len(jid) : jid[i] # "@"
    \/ jid[1] = "@"

\* C10: every repository operation called with an undecodable address, or
\* one whose principal is empty, fails with MalformedAddress having made no
\* store access and leaving the store as it was, and no operation resolves
\* an address to one with an empty principal
C10_MalformedBeforeStore ==
    [][last'.op \in RepositoryOps =>
          /\ ClaimUndecodable(last'.jid) =>
                /\ last'.threw
                /\ last'.err = "MalformedAddress"
                /\ last'.log = <<>>
                /\ last'.ret = <<>>
                /\ kv' = kv
          /\ last'.addr # <<>> => last'.addr[1] # "."]_vars

(***************************************************************************)
(* Claims on the group operations, checked under SpecGroup                 *)
(***************************************************************************)

GroupOps ==
    {"processSenderKeyDistributionMessage", "encryptGroupMessage",
     "decryptGroupMessage"}

\* the sender-key name of a call with the canonical form 5@s.whatsapp.net
CanonicalSenderKeyName == jidToSignalSenderKeyName(Group1, Jid5).name

\* C2: with 1@lid mapped to 5@s.whatsapp.net, the group operations called
\* with sender 1@lid check, load and store the 'sender-key' key that the
\* calls with sender 5@s.whatsapp.net use
C2_SameSenderKeyName ==
    (last.op \in GroupOps /\ last.jid = Lid1 /\ Lid1MappedToJid5) =>
        \A i \in 1..Len(last.log) :
            last.log[i].kind = "sender-key" => last.log[i].id = CanonicalSenderKeyName

\* the sender-key record of a name holds no state: there is none, or an
\* empty one
NoSenderKeyState(name) ==
    \/ name \notin DOMAIN kv["sender-key"]
    \/ kv["sender-key"][name] = EmptySenderKeyRecord

\* C4: decryptGroupMessage for a sender no distribution payload was
\* processed for (and who holds no state of its own), called while no other
\* call is in progress, fails with UnknownSender and returns no plaintext
C4_UnknownSenderUntilProcessed ==
    (/\ last.op = "decryptGroupMessage"
     /\ last.alone
     /\ last.addr # <<>>
     /\ last.addr \notin processed
     /\ NoSenderKeyState(last.addr)) =>
        /\ last.threw
        /\ last.err = "UnknownSender"
        /\ last.ret = <<>>

(***************************************************************************)
(* Claims on the derived keys, checked under SpecAddress                   *)
(***************************************************************************)

BothResolved ==
    /\ last.op = "resolve"
    /\ ~last.first.threw
    /\ ~last.second.threw

SameAddress ==
    /\ last.first.id = last.second.id
    /\ last.first.deviceId = last.second.deviceId

\* C9: two resolved addresses that differ in principal or device get
\* different store keys, and different sender-key names in whatever groups;
\* the same address gets the same store key, and the same sender-key name in
\* the same group
C9_KeysInjective ==
    BothResolved =>
        /\ ~SameAddress =>
              /\ last.first.key # last.second.key
              /\ last.first.name # last.second.name
        /\ SameAddress =>
              /\ last.first.key = last.second.key
              /\ last.first.group = last.second.group
                    => last.first.name = last.second.name
              /\ last.first.group # last.second.group
                    => last.first.name # last.second.name

\* two devices of one user, resolved in the same group
C9_Witness ==
    /\ BothResolved
    /\ last.jids = <<Lid1d2, Lid1>>
    /\ last.first.group = last.second.group
    /\ last.first.id = last.second.id
    /\ last.first.deviceId = 2
    /\ last.second.deviceId = 0

(***************************************************************************)
(* Claims on the group round trip, checked under SpecRound                 *)
(***************************************************************************)

\* C11: when the receiver has processed the distribution payload that
\* encryptGroupMessage returned with a ciphertext and then decrypts the
\* ciphertext for the same group and sender, the decryption succeeds and
\* returns the data that was encrypted, for the first message and for
\* later ones
C11_GroupRoundTrip ==
    [][last'.op = "decryptGroupMessage" =>
          /\ ~last'.threw
          /\ wire # <<>>
          /\ last'.ret = <<wire[1].data>>]_vars

\* the receiver recovered a later message of the sender: the ciphertext was
\* sent at iteration 1
C11_Witness ==
    /\ last.op = "decryptGroupMessage"
    /\ last.args[2].iter = 1
    /\ last.args[2].data = "m2"
    /\ last.ret = <<"m2">>
    /\ last.addr \in DOMAIN peer["sender-key"]
    /\ last.addr \in DOMAIN kv["sender-key"]

(***************************************************************************)
(* Claims on what the operations delete, checked under SpecFrame           *)
(***************************************************************************)

\* the kinds whose entries this layer never deletes
KeptKinds == Kinds \ {"pre-key"}

\* C12: no operation of the repository or of the storage object removes an
\* entry of a kind other than 'pre-key': a 'session' or 'sender-key' record
\* present before a step of theirs is present after it, so that only a
\* clear of the store ends it
C12_NoDeleteButPreKey ==
    [][last'.op # "clear" =>
          \A k \in KeptKinds : \A id \in DOMAIN kv[k] : id \in DOMAIN kv'[k]]_vars

\* a pre-key message was decrypted: its pre-key is gone, the session record
\* it made and a sender-key record are in the store
C12_Witness ==
    /\ last.op = "decryptMessage"
    /\ ~last.threw
    /\ last.args[1] = "pkmsg"
    /\ NatToStr(MessagePreKeyId) \notin DOMAIN kv["pre-key"]
    /\ last.addr \in DOMAIN kv["session"]
    /\ DOMAIN kv["sender-key"] # {}

(***************************************************************************)
(* Claims on transactions, checked under SpecTx                            *)
(***************************************************************************)

\* a transaction of the caller is open: entered and neither committed nor
\* failed
TxOpen(c) == tx[c].pc = "open"

TxFinished(c) == tx[c].pc \in {"committed", "exhausted"}

\* C13: a transaction never retries its commit more than maxCommitRetries
\* times; when it gives up it has used all of them and fails with
\* TransactionExhausted carrying the cause of the last conflict;
\* isInTransaction() is true exactly while the transaction is open; and
\* each of two transactions writing the same id eventually commits or is
\* exhausted
C13_TransactionRetries ==
    /\ [](\A c \in Callers :
            /\ tx[c].retries <= maxCommitRetries
            /\ tx[c].pc = "exhausted" =>
                  /\ tx[c].retries = maxCommitRetries
                  /\ tx[c].err = "TransactionExhausted"
                  /\ tx[c].cause = tx[c].lastConflict
            /\ tx[c].pc = "committed" => tx[c].err = ""
            /\ isInTransaction(c) <=> TxOpen(c))
    /\ \A c \in Callers : TxOpen(c) ~> TxFinished(c)

\* one transaction is exhausted after conflicts with two causes while the
\* other, writing the same id, has committed
C13_Witness ==
    /\ tx["t1"].pc = "exhausted"
    /\ tx["t1"].retries = maxCommitRetries
    /\ tx["t1"].cause = "stale"
    /\ tx["t2"].pc = "committed"
    /\ TxId \in DOMAIN kv["session"]
    /\ kv["session"][TxId] = "t2"

(***************************************************************************)
(* Claims on the life of a sender-key record, checked under SpecGroup      *)
(***************************************************************************)

\* the record under a name holds ratchet state
Initialized(store, name) ==
    /\ name \in DOMAIN store["sender-key"]
    /\ store["sender-key"][name] # EmptySenderKeyRecord

\* C14: with the group operations run one at a time, a sender-key record
\* that holds ratchet state still exists and still holds ratchet state
\* after any processSenderKeyDistributionMessage, encryptGroupMessage or
\* decryptGroupMessage, and a record that exists is never made absent
C14_RecordNeverGoesBack ==
    [][(last'.op \in GroupOps \cup {"await"} /\ last'.alone) =>
          \A name \in DOMAIN kv["sender-key"] :
              /\ name \in DOMAIN kv'["sender-key"]
              /\ Initialized(kv, name) => Initialized(kv', name)]_vars

\* a distribution payload the primitive rejects arrived for a sender whose
\* record holds state and whose chain has advanced
C14_Witness ==
    /\ last.op = "processSenderKeyDistributionMessage"
    /\ last.alone
    /\ last.threw
    /\ last.err = "InvalidDistribution"
    /\ Initialized(kv, last.addr)
    /\ kv["sender-key"][last.addr][1].iter > 0

\* C15: a processSenderKeyDistributionMessage that fails while the
\* primitive processes the payload has written no 'sender-key' entry: the
\* call, from its first step to its last, leaves the entries as they were
C15_FailedProcessIsAtomic ==
    [][(/\ last'.op = "processSenderKeyDistributionMessage"
        /\ last'.threw
        /\ last'.err = "InvalidDistribution") =>
          /\ kv'["sender-key"] = kv["sender-key"]
          /\ \A i \in 1..Len(last'.log) : last'.log[i].m # "set"]_vars

(***************************************************************************)
(* Claims on interleaved group calls, checked under SpecRace               *)
(***************************************************************************)

\* C16: when two calls for one sender-key name interleave at their awaits,
\* the store of the empty SenderKeyRecord by one of them leaves a record
\* that holds ratchet state as it is
C16_CreateKeepsRatchetState ==
    [][(/\ last'.op = "await"
        /\ last'.step = "storeEmpty"
        /\ Initialized(kv, last'.name)) =>
          kv'["sender-key"] = kv["sender-key"]]_vars

(***************************************************************************)
(* Claims on the keys of different peers, checked under SpecAddress (no    *)
(* identity-mapping entry relates any two addresses there)                 *)
(***************************************************************************)

\* the addressing scheme of an address: what follows its "@"
ClaimScheme(jid) == Drop(jid, IndexOf(jid, "@"))

\* the principal of an address: what precedes its first ":" or "@"
ClaimPrincipal(jid) ==
    IF IndexOf(jid, ":") # 0 /\ IndexOf(jid, ":") < IndexOf(jid, "@")
    THEN Take(jid, IndexOf(jid, ":") - 1)
    ELSE Take(jid, IndexOf(jid, "@") - 1)

\* two addresses that differ in principal or in addressing scheme
DifferentPeers(jid1, jid2) ==
    \/ ClaimPrincipal(jid1) # ClaimPrincipal(jid2)
    \/ ClaimScheme(jid1) # ClaimScheme(jid2)

\* C17: two addresses of different peers, differing in principal or in
\* addressing scheme, never resolve to the same 'session' store key
C17_DifferentPeersDifferentKeys ==
    (BothResolved /\ DifferentPeers(last.jids[1], last.jids[2])) =>
        last.first.key # last.second.key

(***************************************************************************)
(* Claims on what the one-to-one operations leave alone: C18 under         *)
(* SpecPair, C19 under Spec                                                *)
(***************************************************************************)

\* the last step was one of encryptMessage, decryptMessage or
\* injectE2ESession, up to a store access or to its return, and the address
\* the operation was called with
SessionStep ==
    \/ last.op \in SessionOps
    \/ last.op = "await" /\ last.of \in SessionOps

SessionStepJid == IF last.op = "await" THEN last.id ELSE last.jid

\* the resolved key of an address: principal.device, <<>> when the address
\* does not resolve
ResolvedKey(jid) ==
    IF jidToSignalProtocolAddress(jid).threw THEN <<>>
    ELSE AddressToString(jidToSignalProtocolAddress(jid))

\* the 'session' entry under a key, if any
SessionOf(store, key) ==
    IF key \in DOMAIN store["session"] THEN <<store["session"][key]>> ELSE <<>>

DecoderRan == \E i \in 1..Len(last.log) : last.log[i] = Access("get", "session", last.addr)

\* C19: a decryptMessage that completes successfully, for whatever kind, has
\* run a primitive decoder and returns the plaintext it produced
C19_DecryptNeedsDecoder ==
    (last.op = "decryptMessage" /\ ~last.threw) =>
        /\ DecoderRan
        /\ last.ret = <<"plaintext">>

====
